---- MODULE Spec2Model ----
(***************************************************************************)
(* Finance-Insights-UI: the chat client's conversation container, storage  *)
(* adapter, stream ingestion loop and typing animator as a state machine.  *)
(*                                                                         *)
(* React is modelled at the level its hooks guarantee: a handler runs to   *)
(* its next await, its queued state updates are applied in order, the      *)
(* component re-renders (every useCallback closure then captures the       *)
(* rendered state) and the typing effect runs when one of its dependencies *)
(* changed.  An async function that is suspended at an await keeps the     *)
(* closures it was called with.                                            *)
(***************************************************************************)
EXTENDS Integers, Sequences, FiniteSets, TLC

\* ------------------------------------------------------------------ bounds
MaxOps == 2        \* user operations: new chat, switch, delete, send, reload
MaxLines == 2      \* lines of response bodies read

\* ------------------------------------------------------------- JS values
Null == "null"
NoConv == 0
NoTimer == 0
ConvIds == 1..(3 * MaxOps)

\* A stored value: the parsed content of a localStorage key; an absent key
\* reads as null (JSON.parse(null) is null, no exception, so the fallback of
\* safeJsonParse is not used).
JsNull == [present |-> FALSE, v |-> <<>>]
Stored(list) == [present |-> TRUE, v |-> list]
OrEmpty(x) == IF x.present THEN x.v ELSE <<>>

\* A string is known by its text and its length in characters.
Str(s, n) == [s |-> s, n |-> n]
TITLE_MAX == 50
Min(a, b) == IF a < b THEN a ELSE b
Substring0(str, k) == Str(str.s, Min(str.n, k))
NewChatTitle == Str("New Chat", 8)

\* Answer texts are sequences of characters.
ErrorText == <<"Sorry, a connection error occurred. Please try again.">>
WelcomeText == <<"Hello! I'm your intelligent financial assistant. I can help you query financial data and loans information. How can I help you today?">>
Slice0(str, k) == SubSeq(str, 1, Min(k, Len(str)))
IsPrefix(p, str) == Len(p) <= Len(str) /\ SubSeq(str, 1, Len(p)) = p

\* ------------------------------------------------------------- messages
WelcomeId == <<"welcome", 0>>
UserId(t) == <<"user", t>>
BotId(t) == <<"bot", t>>

BlankMessage == [id |-> WelcomeId, role |-> "bot", content |-> Str("", 0),
                 answer |-> <<>>, displayedAnswer |-> <<>>,
                 chart |-> Null, table |-> Null, evidence |-> Null,
                 isStreaming |-> FALSE, isThinking |-> FALSE, isError |-> FALSE]

welcomeMessage == [BlankMessage EXCEPT !.answer = WelcomeText, !.displayedAnswer = WelcomeText]
userMessage(t, content) == [BlankMessage EXCEPT !.id = UserId(t), !.role = "user", !.content = content]
botMessage(t) == [BlankMessage EXCEPT !.id = BotId(t), !.isThinking = TRUE]

\* { ...updates } without the spread of m: the fields not named are lost.
Merge_DropsOthers(m, updates) ==
  [f \in DOMAIN m |-> IF f \in DOMAIN updates THEN updates[f]
                       ELSE IF f \in {"id", "role"} THEN m[f] ELSE BlankMessage[f]]

\* { ...m, ...updates }
Merge(m, updates) == [f \in DOMAIN m |-> IF f \in DOMAIN updates THEN updates[f] ELSE m[f]]
MapUpdate(list, messageId, updates) ==
  [i \in 1..Len(list) |-> IF list[i].id = messageId THEN Merge(list[i], updates) ELSE list[i]]
FilterOut(list, id) == SelectSeq(list, LAMBDA c : c.id # id)
FindIndex(list, id) ==
  IF \E i \in 1..Len(list) : list[i].id = id
  THEN CHOOSE i \in 1..Len(list) : list[i].id = id /\ \A j \in 1..(i - 1) : list[j].id # id
  ELSE 0

\* ------------------------------------------------------------------ state
VARIABLES
  localStorage,            \* [convs, cur, msgs]: the three key families of storageService.js
  nextId,                  \* generateId(): the next fresh conversation id
  conversations,           \* ConversationProvider state
  currentConversationId,   \* ConversationProvider state
  messages,                \* ConversationProvider state
  isLoading,               \* ChatApp state
  typingIntervalRef,       \* ChatApp ref: id of the interval last started
  timers,                  \* active intervals, each with the closure of its callback
  effectCleanup,           \* whether the last run of the typing effect returned a cleanup
  sends,                   \* sendMessage calls: suspended at an await, or over (history)
  turn,                    \* Date.now() as used for message ids: turns so far
  ops,                     \* user operations so far
  linesRead,               \* lines of response bodies read so far
  msgsSet,                 \* setMessages was called since the last render
  renderedCcid,            \* the currentConversationId of the last render
  renderedIsLoading,       \* the isLoading of the last render
  closureMessages,         \* the messages sendMessage was last created with
  calls,                   \* backend variant: container calls suspended at an await
  rows,                    \* PaginatedTable prop: table.rows
  currentPage,             \* PaginatedTable state
  body,                    \* stream loop alone: the text of a response body
  bytesRead,               \* stream loop alone: how much of it reader.read() has returned
  applied,                 \* stream loop alone: the updates passed to updateMessage
  last                     \* history: what the last step did

vars == <<localStorage, nextId, conversations, currentConversationId, messages, isLoading,
          typingIntervalRef, timers, effectCleanup, sends, turn, ops, linesRead, msgsSet, renderedCcid, renderedIsLoading, closureMessages,
          calls, rows, currentPage, body, bytesRead, applied, last>>

\* The mutable world as one record, so that a handler is the composition of
\* the calls it makes.
World == [ls |-> localStorage, nextId |-> nextId, conversations |-> conversations,
          ccid |-> currentConversationId, messages |-> messages, isLoading |-> isLoading,
          ref |-> typingIntervalRef, timers |-> timers, cleanup |-> effectCleanup,
          msgsSet |-> msgsSet, threw |-> FALSE]

\* ------------------------------------------------- storageService.js (local)
getConversations(w) == w.ls.convs

getCurrentConversationId(w) == w.ls.cur

setCurrentConversationId(w, id) == [w EXCEPT !.ls.cur = id]

\* The conversation createConversation is about to make.
newConversation(w, title) ==
  [id |-> w.nextId, title |-> Substring0(title, TITLE_MAX), isPinned |-> FALSE, messageCount |-> 0]

st_createConversation(w, title) ==
  LET list == OrEmpty(getConversations(w))
  IN [w EXCEPT !.ls.convs = Stored(<<newConversation(w, title)>> \o list),
               !.ls.msgs[w.nextId] = Stored(<<>>),
               !.nextId = @ + 1]

\* getConversation(id): null when not listed; throws when the list key is absent.
st_getConversationThrows(w) == ~getConversations(w).present
st_getConversationFound(w, id) == FindIndex(OrEmpty(getConversations(w)), id) # 0
st_getConversationMessages(w, id) == w.ls.msgs[id]

\* getMessages(conversationId): JSON.parse(null) is null, not the fallback.
getMessages(w, conversationId) == w.ls.msgs[conversationId]

\* deleteConversation without the clearing of the current id
st_deleteConversation_KeepsCurrent(w, id) ==
  LET list == OrEmpty(getConversations(w))
      filtered == FilterOut(list, id)
  IN IF Len(filtered) = Len(list) THEN w
     ELSE [w EXCEPT !.ls.convs = Stored(filtered), !.ls.msgs[id] = JsNull]

\* The value deleteConversation returns.
st_deleteConversationReturns(w, id) ==
  LET list == OrEmpty(getConversations(w))
  IN Len(FilterOut(list, id)) # Len(list)

st_deleteConversation(w, id) ==
  LET list == OrEmpty(getConversations(w))
      filtered == FilterOut(list, id)
  IN IF Len(filtered) = Len(list) THEN w
     ELSE LET w1 == [w EXCEPT !.ls.convs = Stored(filtered), !.ls.msgs[id] = JsNull]
          IN IF getCurrentConversationId(w1) = id THEN setCurrentConversationId(w1, NoConv) ELSE w1

\* updateConversation(id, updates): { ...conversations[index], ...updates };
\* null (nothing written) when the id is not listed.
st_updateConversation(w, id, updates) ==
  LET list == OrEmpty(getConversations(w))
      index == FindIndex(list, id)
  IN IF index = 0 THEN w
     ELSE [w EXCEPT !.ls.convs = Stored([list EXCEPT ![index] = Merge(list[index], updates)])]

\* clearAllData: conversations.forEach throws on null before anything is removed.
st_clearAllData(w) ==
  LET list == getConversations(w)
  IN IF ~list.present THEN [w EXCEPT !.threw = TRUE]
     ELSE [w EXCEPT !.ls.msgs = [c \in DOMAIN @ |->
                                   IF FindIndex(list.v, c) # 0 THEN JsNull ELSE @[c]],
                    !.ls.convs = JsNull,
                    !.ls.cur = NoConv]

\* getStorageStats: conversations.length throws on null; nothing is written.
st_getStorageStats(w) ==
  IF ~getConversations(w).present THEN [w EXCEPT !.threw = TRUE] ELSE w

AutoTitle(content) == Str(content.s, Min(content.n, TITLE_MAX) + (IF content.n > TITLE_MAX THEN 3 ELSE 0))

\* messages.unshift(newMessage) in place of messages.push(newMessage)
st_addMessage_Unshifts(w, conversationId, message) ==
  LET stored == w.ls.msgs[conversationId]
  IN IF ~stored.present THEN [w EXCEPT !.threw = TRUE]
     ELSE LET msgs == <<message>> \o stored.v
              w1 == [w EXCEPT !.ls.msgs[conversationId] = Stored(msgs)]
              list == OrEmpty(getConversations(w1))
              convIndex == FindIndex(list, conversationId)
          IN IF convIndex = 0 THEN w1
             ELSE [w1 EXCEPT !.ls.convs =
                     Stored([list EXCEPT ![convIndex] = [@ EXCEPT !.messageCount = Len(msgs)]])]

st_addMessage(w, conversationId, message) ==
  LET stored == w.ls.msgs[conversationId]
  IN IF ~stored.present THEN [w EXCEPT !.threw = TRUE]     \* null.push
     ELSE LET msgs == Append(stored.v, message)
              w1 == [w EXCEPT !.ls.msgs[conversationId] = Stored(msgs)]
              list == OrEmpty(getConversations(w1))
              convIndex == FindIndex(list, conversationId)
          IN IF convIndex = 0 THEN w1
             ELSE LET c == list[convIndex]
                      c1 == [c EXCEPT !.messageCount = Len(msgs)]
                      c2 == IF c1.title = NewChatTitle /\ message.role = "user" /\ message.content.n > 0
                            THEN [c1 EXCEPT !.title = AutoTitle(message.content)] ELSE c1
                  IN [w1 EXCEPT !.ls.convs = Stored([list EXCEPT ![convIndex] = c2])]

st_updateMessage(w, conversationId, messageId, updates) ==
  LET stored == w.ls.msgs[conversationId]
  IN IF ~stored.present THEN [w EXCEPT !.threw = TRUE]     \* null.findIndex
     ELSE LET index == FindIndex(stored.v, messageId)
          IN IF index = 0 THEN w
             ELSE [w EXCEPT !.ls.msgs[conversationId] =
                              Stored([stored.v EXCEPT ![index] = Merge(stored.v[index], updates)])]

\* ------------------------------------- ConversationProvider (local storage)
\* setMessages(...): the typing effect depends on the identity of the list.
setMessages(w, list) == [w EXCEPT !.messages = list, !.msgsSet = TRUE]

ctx_createConversation(w, title) ==
  LET newConv == newConversation(w, title)
      w1 == st_createConversation(w, title)
      w2 == [w1 EXCEPT !.conversations = <<newConv>> \o @, !.ccid = newConv.id]
      w3 == setCurrentConversationId(w2, newConv.id)
      w4 == st_addMessage(w3, newConv.id, welcomeMessage)
  IN setMessages(w4, <<welcomeMessage>>)

\* switchConversation without storage.setCurrentConversationId(id)
ctx_switchConversation_NoPersist(w, cid, id) ==
  IF id = cid THEN w
  ELSE IF st_getConversationThrows(w) THEN [w EXCEPT !.threw = TRUE]
  ELSE IF ~st_getConversationFound(w, id) THEN w
  ELSE setMessages([w EXCEPT !.ccid = id], OrEmpty(st_getConversationMessages(w, id)))

\* cid: the currentConversationId the callback was created with.
ctx_switchConversation(w, cid, id) ==
  IF id = cid THEN w
  ELSE IF st_getConversationThrows(w) THEN [w EXCEPT !.threw = TRUE]
  ELSE IF ~st_getConversationFound(w, id) THEN w
  ELSE LET w1 == setCurrentConversationId([w EXCEPT !.ccid = id], id)
       IN setMessages(w1, OrEmpty(st_getConversationMessages(w, id)))

\* convs: the conversations list the callback was created with.
ctx_deleteConversation(w, cid, convs, id) ==
  LET w1 == st_deleteConversation(w, id)
      w2 == [w1 EXCEPT !.conversations = FilterOut(@, id)]
      remaining == FilterOut(convs, id)
  IN IF id # cid THEN w2
     ELSE IF Len(remaining) > 0 THEN ctx_switchConversation(w2, cid, remaining[1].id)
     ELSE setMessages([w2 EXCEPT !.ccid = NoConv], <<>>)

ctx_addMessage(w, cid, message) ==
  IF cid = NoConv
  THEN LET newId == w.nextId
           w1 == ctx_createConversation(w, NewChatTitle)
           w2 == st_addMessage(w1, newId, message)
           w3 == setMessages(w2, Append(w2.messages, message))
       IN IF message.role = "user" /\ message.content.n > 0
          THEN [w3 EXCEPT !.conversations = OrEmpty(getConversations(w3))]
          ELSE w3
  ELSE LET w1 == st_addMessage(w, cid, message)
       IN IF w1.threw THEN w1
          ELSE LET w2 == setMessages(w1, Append(w1.messages, message))
               IN IF message.role = "user" /\ message.content.n > 0
                  THEN [w2 EXCEPT !.conversations = OrEmpty(getConversations(w2))]
                  ELSE w2

ctx_updateMessage(w, cid, messageId, updates) ==
  LET w1 == IF cid # NoConv THEN st_updateMessage(w, cid, messageId, updates) ELSE w
  IN IF w1.threw THEN w1
     ELSE setMessages(w1, MapUpdate(w1.messages, messageId, updates))

\* Load on mount.
ctx_load(w) ==
  LET loaded == OrEmpty(getConversations(w))
      currentId == getCurrentConversationId(w)
      w1 == [w EXCEPT !.conversations = loaded]
  IN IF currentId # NoConv /\ FindIndex(loaded, currentId) # 0
     THEN LET w2 == [w1 EXCEPT !.ccid = currentId]
              stored == st_getConversationMessages(w, currentId)
          IN IF stored.present THEN setMessages(w2, stored.v) ELSE w2
     ELSE w1

\* --------------------------------------------------------------- ChatApp
clearInterval(w, tid) == [w EXCEPT !.timers = {t \in @ : t.tid # tid}]

\* setInterval returns an id that no live handle holds.
FreshTimer(w) ==
  CHOOSE n \in 1..(Cardinality(w.timers) + 2) :
    /\ n # w.ref
    /\ \A t \in w.timers : t.tid # n
    /\ \A k \in 1..(n - 1) : k = w.ref \/ \E t \in w.timers : t.tid = k

\* The cleanup the typing effect returned, run before the effect runs again.
EffectCleanup(w) ==
  IF w.cleanup /\ w.ref # NoTimer THEN clearInterval(w, w.ref) ELSE w

\* The typing effect without its test of isStreaming: it types whenever the
\* displayed text differs from the answer.
TypingEffect_AlwaysTypes(w) ==
  LET n == Len(w.messages)
      lastMessage == w.messages[n]
  IN IF n = 0 THEN [w EXCEPT !.cleanup = FALSE]
     ELSE IF lastMessage.role # "bot" THEN [w EXCEPT !.cleanup = FALSE]
     ELSE IF lastMessage.answer # <<>> /\ lastMessage.displayedAnswer # lastMessage.answer
     THEN LET w1 == IF w.ref # NoTimer THEN clearInterval(w, w.ref) ELSE w
              tid == FreshTimer(w1)
              timer == [tid |-> tid, answer |-> lastMessage.answer, id |-> lastMessage.id,
                        currentIndex |-> Len(lastMessage.displayedAnswer), cid |-> w.ccid]
          IN [w1 EXCEPT !.timers = @ \cup {timer}, !.ref = tid, !.cleanup = TRUE]
     ELSE [w EXCEPT !.cleanup = FALSE]

\* The body of the typing effect, with the updateMessage of this render.
TypingEffect(w) ==
  LET n == Len(w.messages)
      lastMessage == w.messages[n]
  IN IF n = 0 THEN [w EXCEPT !.cleanup = FALSE]
     ELSE IF lastMessage.role # "bot" THEN [w EXCEPT !.cleanup = FALSE]
     ELSE IF /\ lastMessage.answer # <<>>
             /\ lastMessage.displayedAnswer # lastMessage.answer
             /\ lastMessage.isStreaming
     THEN LET w1 == IF w.ref # NoTimer THEN clearInterval(w, w.ref) ELSE w
              tid == FreshTimer(w1)
              timer == [tid |-> tid, answer |-> lastMessage.answer, id |-> lastMessage.id,
                        currentIndex |-> Len(lastMessage.displayedAnswer), cid |-> w.ccid]
          IN [w1 EXCEPT !.timers = @ \cup {timer}, !.ref = tid, !.cleanup = TRUE]
     ELSE IF /\ ~lastMessage.isStreaming
             /\ lastMessage.answer # <<>>
             /\ lastMessage.displayedAnswer # lastMessage.answer
     THEN LET w1 == ctx_updateMessage([w EXCEPT !.cleanup = FALSE], w.ccid, lastMessage.id,
                                      [displayedAnswer |-> lastMessage.answer])
          IN [w1 EXCEPT !.threw = FALSE]
     ELSE [w EXCEPT !.cleanup = FALSE]

\* What the effect of the coming render will do.
EffectKind(w) ==
  LET n == Len(w.messages)
      lastMessage == w.messages[n]
  IN IF n = 0 THEN "none"
     ELSE IF lastMessage.role # "bot" THEN "none"
     ELSE IF lastMessage.answer # <<>> /\ lastMessage.displayedAnswer # lastMessage.answer
     THEN (IF lastMessage.isStreaming THEN "timer" ELSE "snap")
     ELSE "none"

\* The interval callback of timer t.
TimerCallback(w, t) ==
  IF t.currentIndex < Len(t.answer)
  THEN LET nextChars == Slice0(t.answer, t.currentIndex + 1)
           w1 == ctx_updateMessage(w, t.cid, t.id, [displayedAnswer |-> nextChars])
       IN IF w1.threw THEN [w1 EXCEPT !.threw = FALSE]
          ELSE [w1 EXCEPT !.timers = (@ \ {t}) \cup {[t EXCEPT !.currentIndex = @ + 1]}]
  ELSE IF w.ref # NoTimer THEN clearInterval(w, w.ref) ELSE w

\* ------------------------------------------------------ response frames
TextData == {<<>>, <<"a", "b">>, <<"b">>}
Payloads == {"p1"}
FrameTypes == {"text", "table", "chart", "evidence", "done", "status"}
Frame(type, text, payload) == [type |-> type, text |-> text, payload |-> payload]
Frames ==
  {Frame("text", x, Null) : x \in TextData}
  \cup {Frame(ty, <<>>, p) : ty \in {"table", "chart", "evidence"}, p \in Payloads}
  \cup {Frame("done", <<>>, Null), Frame("status", <<>>, Null)}

\* A line of a chunk: whether it starts with 'data: ' and whether the rest
\* parses as JSON, and then the frame it holds.
Line(marker, json, frame) == [marker |-> marker, json |-> json, frame |-> frame]
Lines ==
  {Line(TRUE, TRUE, f) : f \in Frames}
  \cup {Line(TRUE, FALSE, Frame("status", <<>>, Null)), Line(FALSE, TRUE, Frame("text", <<"b">>, Null))}
Chunks == {<<l>> : l \in Lines} \cup {<<l1, l2>> : l1 \in Lines, l2 \in Lines}

Recognized(frame) == frame.type \in {"text", "table", "chart", "evidence", "done"}

\* The switch statement with a done case that also clears the answer.
FrameUpdates_DoneClears(frame) ==
  CASE frame.type = "text" -> [answer |-> frame.text, isThinking |-> FALSE, isStreaming |-> TRUE]
    [] frame.type = "table" -> [table |-> frame.payload]
    [] frame.type = "chart" -> [chart |-> frame.payload]
    [] frame.type = "evidence" -> [evidence |-> frame.payload]
    [] frame.type = "done" -> [answer |-> <<>>, isStreaming |-> FALSE, isThinking |-> FALSE]
    [] OTHER -> [none |-> TRUE]

\* The switch statement with a text case that leaves isThinking alone.
FrameUpdates_TextKeepsThinking(frame) ==
  CASE frame.type = "text" -> [answer |-> frame.text, isStreaming |-> TRUE]
    [] frame.type = "table" -> [table |-> frame.payload]
    [] frame.type = "chart" -> [chart |-> frame.payload]
    [] frame.type = "evidence" -> [evidence |-> frame.payload]
    [] frame.type = "done" -> [isStreaming |-> FALSE, isThinking |-> FALSE]
    [] OTHER -> [none |-> TRUE]

\* The updates the switch statement passes to updateMessage; the empty
\* record for a type of the default branch.
FrameUpdates(frame) ==
  CASE frame.type = "text" -> [answer |-> frame.text, isThinking |-> FALSE, isStreaming |-> TRUE]
    [] frame.type = "table" -> [table |-> frame.payload]
    [] frame.type = "chart" -> [chart |-> frame.payload]
    [] frame.type = "evidence" -> [evidence |-> frame.payload]
    [] frame.type = "done" -> [isStreaming |-> FALSE, isThinking |-> FALSE]
    [] OTHER -> [none |-> TRUE]
\* The for loop without its test of the 'data: ' marker.
ProcessLine_NoMarkerTest(w, cid, botMessageId, line) ==
  IF line.json /\ Recognized(line.frame)
  THEN LET w1 == ctx_updateMessage(w, cid, botMessageId, FrameUpdates(line.frame))
       IN IF w1.threw THEN w ELSE w1
  ELSE w

\* One line of the for loop; an exception of updateMessage is caught with
\* those of JSON.parse.
ProcessLine(w, cid, botMessageId, line) ==
  IF line.marker /\ line.json /\ Recognized(line.frame)
  THEN LET w1 == ctx_updateMessage(w, cid, botMessageId, FrameUpdates(line.frame))
       IN IF w1.threw THEN w ELSE w1
  ELSE w

RECURSIVE ProcessLines(_, _, _, _)
ProcessLines(w, cid, botMessageId, lines) ==
  IF lines = <<>> THEN w
  ELSE ProcessLines(ProcessLine(w, cid, botMessageId, Head(lines)), cid, botMessageId, Tail(lines))

ErrorUpdates == [answer |-> ErrorText, displayedAnswer |-> ErrorText,
                 isStreaming |-> FALSE, isThinking |-> FALSE, isError |-> TRUE]

\* catch and finally of sendMessage.
SendCatch(w, cid, botMessageId) ==
  LET w1 == ctx_updateMessage(w, cid, botMessageId, ErrorUpdates)
  IN [w1 EXCEPT !.threw = FALSE, !.isLoading = FALSE]
SendFinally(w) == [w EXCEPT !.isLoading = FALSE]

\* sendMessage without the clearInterval of its first lines.
SendSync_KeepsTimer(w, cid, t, content) ==
  LET w1 == IF cid = NoConv THEN ctx_createConversation(w, NewChatTitle) ELSE w
      w2 == ctx_addMessage(w1, cid, userMessage(t, content))
      w3 == [w2 EXCEPT !.isLoading = TRUE]
      w4 == ctx_addMessage(w3, cid, botMessage(t))
  IN IF w2.threw THEN w2 ELSE w4

\* sendMessage up to its first await; cid is the currentConversationId that
\* sendMessage, addMessage and updateMessage were created with.
SendSync(w, cid, t, content) ==
  LET w0 == IF w.ref # NoTimer THEN clearInterval(w, w.ref) ELSE w
      w1 == IF cid = NoConv THEN ctx_createConversation(w0, NewChatTitle) ELSE w0
      w2 == ctx_addMessage(w1, cid, userMessage(t, content))
      w3 == [w2 EXCEPT !.isLoading = TRUE]
      w4 == ctx_addMessage(w3, cid, botMessage(t))
  IN IF w2.threw THEN w2 ELSE w4

\* --------------------------------------------------- conversation history
HISTORY_MAX == 20

\* list.slice(-n)
SliceLast(list, n) == SubSeq(list, (IF Len(list) > n THEN Len(list) - n ELSE 0) + 1, Len(list))
\* list.slice(0, n)
SliceFirst(list, n) == SubSeq(list, 1, Min(n, Len(list)))
InHistory(msg) == msg.role = "user" \/ (msg.role = "bot" /\ msg.answer # <<>>)
HistoryEntry(msg) ==
  [role |-> IF msg.role = "user" THEN "user" ELSE "assistant",
   content |-> IF msg.role = "user" THEN <<msg.content.s>> ELSE msg.answer]

\* messages.slice(0, 20) in place of messages.slice(-20)
conversationHistory_FromStart(msgs) ==
  LET kept == SelectSeq(SliceFirst(msgs, HISTORY_MAX), InHistory)
  IN [i \in 1..Len(kept) |-> HistoryEntry(kept[i])]

\* messages.slice(-20).filter(...).map(...)
conversationHistory(msgs) ==
  LET kept == SelectSeq(SliceLast(msgs, HISTORY_MAX), InHistory)
  IN [i \in 1..Len(kept) |-> HistoryEntry(kept[i])]

\* ---------------------------------------------------------------- actions
NoBot == <<"none", 0>>
Did(op, id) == [op |-> op, id |-> id]

\* A render is due: a dependency of the typing effect changed.
RenderDue == msgsSet \/ currentConversationId # renderedCcid
Rendered == ~RenderDue

Commit(w) ==
  /\ localStorage' = w.ls
  /\ nextId' = w.nextId
  /\ conversations' = w.conversations
  /\ currentConversationId' = w.ccid
  /\ messages' = w.messages
  /\ isLoading' = w.isLoading
  /\ typingIntervalRef' = w.ref
  /\ timers' = w.timers
  /\ effectCleanup' = w.cleanup
  /\ msgsSet' = w.msgsSet

InFlight == {s \in sends : s.pc \in {"fetch", "read"}}

Init ==
  /\ localStorage = [convs |-> JsNull, cur |-> NoConv, msgs |-> [c \in ConvIds |-> JsNull]]
  /\ nextId = 1
  /\ conversations = <<>>
  /\ currentConversationId = NoConv
  /\ messages = <<>>
  /\ isLoading = FALSE
  /\ typingIntervalRef = NoTimer
  /\ timers = {}
  /\ effectCleanup = FALSE
  /\ sends = {}
  /\ calls = {}
  /\ turn = 0
  /\ ops = 0
  /\ linesRead = 0
  /\ msgsSet = FALSE
  /\ renderedCcid = NoConv
  /\ renderedIsLoading = FALSE
  /\ closureMessages = <<>>
  /\ rows = <<>>
  /\ currentPage = 1
  /\ body = <<>>
  /\ bytesRead = 0
  /\ applied = <<>>
  /\ last = Did("mount", NoBot)

\* React commits the pending state and runs the typing effect.
Render ==
  /\ RenderDue
  /\ LET w == TypingEffect(EffectCleanup([World EXCEPT !.msgsSet = FALSE]))
     IN /\ Commit(w)
        /\ last' = Did(EffectKind(World), IF Len(messages) > 0 THEN messages[Len(messages)].id ELSE NoBot)
  /\ renderedCcid' = currentConversationId
  /\ renderedIsLoading' = isLoading
  /\ closureMessages' = IF isLoading # renderedIsLoading \/ currentConversationId # renderedCcid
                        THEN messages ELSE closureMessages
  /\ UNCHANGED <<body, bytesRead, applied, rows, currentPage, calls, sends, turn, ops, linesRead>>

\* Sidebar: New Chat.
NewChat ==
  /\ Rendered
  /\ ops < MaxOps
  /\ ops' = ops + 1
  /\ Commit(ctx_createConversation(World, NewChatTitle))
  /\ last' = Did("create", NoBot)
  /\ UNCHANGED <<body, bytesRead, applied, rows, currentPage, calls, sends, turn, linesRead, renderedCcid, renderedIsLoading, closureMessages>>

\* Sidebar: click on a listed conversation.
Switch(i) ==
  /\ Rendered
  /\ LET w == ctx_switchConversation(World, currentConversationId, conversations[i].id)
     IN Commit([w EXCEPT !.threw = FALSE])
  /\ last' = [op |-> "switch", id |-> NoBot, from |-> currentConversationId, to |-> conversations[i].id]
  /\ ops < MaxOps
  /\ ops' = ops + 1
  /\ UNCHANGED <<body, bytesRead, applied, rows, currentPage, calls, sends, turn, linesRead, renderedCcid, renderedIsLoading, closureMessages>>

\* Sidebar: delete a listed conversation.
Delete(i) ==
  /\ Rendered
  /\ LET w == ctx_deleteConversation(World, currentConversationId, conversations, conversations[i].id)
     IN Commit([w EXCEPT !.threw = FALSE])
  /\ last' = Did("delete", NoBot)
  /\ ops < MaxOps
  /\ ops' = ops + 1
  /\ UNCHANGED <<body, bytesRead, applied, rows, currentPage, calls, sends, turn, linesRead, renderedCcid, renderedIsLoading, closureMessages>>

Contents == {Str("hi", 2)}

\* sendMessage without the isLoading half of its first test.
Send_WhileLoading(content) ==
  /\ Rendered
  /\ content.n > 0
  /\ ops < MaxOps
  /\ ops' = ops + 1
  /\ LET t == turn + 1
         w == SendSync(World, currentConversationId, t, content)
     IN /\ Commit([w EXCEPT !.threw = FALSE])
        /\ sends' = IF w.threw THEN sends
                    ELSE sends \cup {[pc |-> "fetch", cid |-> currentConversationId,
                                      botMessageId |-> BotId(t), idsBefore |-> nextId,
                                      hadText |-> FALSE, lastText |-> <<>>, lastDone |-> FALSE]}
        /\ turn' = t
        /\ last' = [op |-> "send", id |-> BotId(t), shown |-> messages,
                    history |-> conversationHistory(closureMessages)]
  /\ UNCHANGED <<body, bytesRead, applied, rows, currentPage, calls, linesRead, renderedCcid, renderedIsLoading, closureMessages>>

\* ChatInput / drill-down: sendMessage(content) runs to its fetch.
Send(content) ==
  /\ Rendered
  /\ content.n > 0 /\ ~isLoading
  /\ ops < MaxOps
  /\ ops' = ops + 1
  /\ LET t == turn + 1
         w == SendSync(World, currentConversationId, t, content)
     IN /\ Commit([w EXCEPT !.threw = FALSE])
        /\ sends' = IF w.threw THEN sends
                    ELSE sends \cup {[pc |-> "fetch", cid |-> currentConversationId,
                                      botMessageId |-> BotId(t), idsBefore |-> nextId,
                                      hadText |-> FALSE, lastText |-> <<>>, lastDone |-> FALSE]}
        /\ turn' = t
        /\ last' = [op |-> "send", id |-> BotId(t), shown |-> messages,
                    history |-> conversationHistory(closureMessages)]
  /\ UNCHANGED <<body, bytesRead, applied, rows, currentPage, calls, linesRead, renderedCcid, renderedIsLoading, closureMessages>>

\* sendMessage called while a send is in progress, or with blank content.
SendRefused(content) ==
  /\ Rendered
  /\ content.n = 0 \/ isLoading
  /\ last' = Did("refused", NoBot)
  /\ UNCHANGED <<body, bytesRead, applied, rows, currentPage, calls, localStorage, nextId, conversations, currentConversationId, messages, isLoading,
                 typingIntervalRef, timers, effectCleanup, sends, turn, ops, linesRead, msgsSet, renderedCcid, renderedIsLoading, closureMessages>>

\* fetch resolved with an ok response.
FetchOk(s) ==
  /\ Rendered
  /\ s.pc = "fetch"
  /\ sends' = (sends \ {s}) \cup {[s EXCEPT !.pc = "read"]}
  /\ last' = Did("fetch", s.botMessageId)
  /\ UNCHANGED <<body, bytesRead, applied, rows, currentPage, calls, localStorage, nextId, conversations, currentConversationId, messages, isLoading,
                 typingIntervalRef, timers, effectCleanup, turn, ops, linesRead, msgsSet, renderedCcid, renderedIsLoading, closureMessages>>

\* fetch rejected, the response was not ok, or reader.read() rejected.
SendFails(s) ==
  /\ Rendered
  /\ s.pc \in {"fetch", "read"}
  /\ Commit(SendCatch(World, s.cid, s.botMessageId))
  /\ sends' = (sends \ {s}) \cup {[s EXCEPT !.pc = "failed"]}
  /\ last' = Did("error", s.botMessageId)
  /\ UNCHANGED <<body, bytesRead, applied, rows, currentPage, calls, turn, ops, linesRead, renderedCcid, renderedIsLoading, closureMessages>>

\* History of a send: the frames it has read so far.
FrameSeen(s, line) ==
  IF line.marker /\ line.json
  THEN [s EXCEPT !.hadText = @ \/ line.frame.type = "text",
                 !.lastText = IF line.frame.type = "text" THEN line.frame.text ELSE @,
                 !.lastDone = line.frame.type = "done"]
  ELSE s

RECURSIVE FramesSeen(_, _)
FramesSeen(s, lines) == IF lines = <<>> THEN s ELSE FramesSeen(FrameSeen(s, Head(lines)), Tail(lines))

\* Whether a chunk holds a malformed line followed by a recognized frame.
SkipsThenApplies(chunk) ==
  \E i, j \in 1..Len(chunk) :
    /\ i < j
    /\ ~chunk[i].marker \/ ~chunk[i].json
    /\ chunk[j].marker /\ chunk[j].json /\ Recognized(chunk[j].frame)

\* reader.read() resolved with a chunk.
ReadChunk(s, chunk) ==
  /\ Rendered
  /\ s.pc = "read"
  /\ linesRead + Len(chunk) <= MaxLines
  /\ linesRead' = linesRead + Len(chunk)
  /\ Commit(ProcessLines(World, s.cid, s.botMessageId, chunk))
  /\ sends' = (sends \ {s}) \cup {FramesSeen(s, chunk)}
  /\ last' = Did(IF SkipsThenApplies(chunk) THEN "chunk-skip" ELSE "chunk", s.botMessageId)
  /\ UNCHANGED <<body, bytesRead, applied, rows, currentPage, calls, turn, ops, renderedCcid, renderedIsLoading, closureMessages>>

\* reader.read() resolved with done: the loop breaks.
ReadEnd(s) ==
  /\ Rendered
  /\ s.pc = "read"
  /\ Commit(SendFinally(World))
  /\ sends' = (sends \ {s}) \cup {[s EXCEPT !.pc = "returned"]}
  /\ last' = Did("end", s.botMessageId)
  /\ renderedIsLoading' = FALSE
  /\ closureMessages' = messages      \* isLoading changed: sendMessage is made anew
  /\ UNCHANGED <<body, bytesRead, applied, rows, currentPage, calls, turn, ops, linesRead, renderedCcid>>

\* An interval fires.
Tick(t) ==
  /\ Rendered
  /\ Commit(TimerCallback(World, t))
  /\ last' = Did(IF t.currentIndex < Len(t.answer) THEN "tick" ELSE "tick-stop", t.id)
  /\ UNCHANGED <<body, bytesRead, applied, rows, currentPage, calls, sends, turn, ops, linesRead, renderedCcid, renderedIsLoading, closureMessages>>

\* The page is reloaded: pending work is dropped, the provider mounts and loads.
Reload ==
  /\ Rendered
  /\ LET w0 == [World EXCEPT !.conversations = <<>>, !.ccid = NoConv, !.messages = <<>>,
                             !.isLoading = FALSE, !.ref = NoTimer, !.timers = {}, !.cleanup = FALSE]
     IN Commit(ctx_load(w0))
  /\ sends' = {s \in sends : s.pc \notin {"fetch", "read"}}
  /\ renderedCcid' = NoConv
  /\ renderedIsLoading' = FALSE
  /\ closureMessages' = <<>>
  /\ last' = Did("mount", NoBot)
  /\ ops < MaxOps
  /\ ops' = ops + 1
  /\ UNCHANGED <<body, bytesRead, applied, rows, currentPage, calls, turn, linesRead>>

SwitchConversation == \E i \in 1..Len(conversations) : Switch(i)
DeleteConversation == \E i \in 1..Len(conversations) : Delete(i)
SendMessage == \E content \in Contents : Send(content)
SendIgnored == \E content \in Contents \cup {Str("", 0)} : SendRefused(content)
FetchResolves == \E s \in sends : FetchOk(s)
RequestFails == \E s \in sends : SendFails(s)
ReaderReads == \E s \in sends : \E chunk \in Chunks : ReadChunk(s, chunk)
ReaderEnds == \E s \in sends : ReadEnd(s)
IntervalFires == \E t \in timers : Tick(t)

Next ==
  \/ Render
  \/ NewChat
  \/ SwitchConversation
  \/ DeleteConversation
  \/ SendMessage
  \/ SendIgnored
  \/ FetchResolves
  \/ RequestFails
  \/ ReaderReads
  \/ ReaderEnds
  \/ IntervalFires
  \/ Reload

Spec == Init /\ [][Next]_vars

\* ------------------------------------------- ConversationProvider (backend)
\* The backend variant of the container over the fetch-based storage adapter.
\* The server is the environment: a request fails (fetch rejects or the
\* response is not ok) or returns what the server chooses.
MaxListed == 2     \* conversations the server lists at mount

Conversation(id) == [id |-> id, title |-> NewChatTitle, isPinned |-> FALSE, messageCount |-> 0]
ServerLists == {[i \in 1..k |-> Conversation(i)] : k \in 0..MaxListed}
ServerMessages == {<<>>, <<welcomeMessage>>, <<welcomeMessage, userMessage(1, Str("hi", 2))>>}

\* What getConversation resolves with: null, or the conversation object,
\* whose messages field may be missing.
Responses ==
  {[ok |-> FALSE, messages |-> JsNull]}
  \cup {[ok |-> TRUE, messages |-> m] : m \in {JsNull} \cup {Stored(x) : x \in ServerMessages}}

\* A call of an async handler: the closure it runs with and the await it is
\* at.  createNewConversation closes over no state, deleteConversationHandler
\* alone over the conversations list.
Call(op, pc, id) ==
  [n |-> ops + 1, op |-> op, pc |-> pc, id |-> id, to |-> id,
   cid |-> IF op = "create" THEN NoConv ELSE currentConversationId,
   convs |-> IF op = "delete" THEN conversations ELSE <<>>,
   message |-> BlankMessage]
At(c, pc, to) == [c EXCEPT !.pc = pc, !.to = to]

ChatAppVars == <<nextId, typingIntervalRef, timers, effectCleanup, sends, turn, linesRead, msgsSet, renderedCcid, renderedIsLoading, closureMessages,
                 rows, currentPage, body, bytesRead, applied>>

InitBackend ==
  /\ localStorage \in {[convs |-> JsNull, cur |-> cur, msgs |-> [c \in ConvIds |-> JsNull]] :
                        cur \in 0..MaxListed}
  /\ nextId = MaxListed + 1
  /\ conversations = <<>>
  /\ currentConversationId = NoConv
  /\ messages = <<>>
  /\ isLoading = TRUE
  /\ typingIntervalRef = NoTimer
  /\ timers = {}
  /\ effectCleanup = FALSE
  /\ sends = {}
  /\ calls = {[n |-> 0, op |-> "load", pc |-> "getConversations", id |-> NoConv, to |-> NoConv,
               cid |-> NoConv, convs |-> <<>>, message |-> BlankMessage]}
  /\ turn = 0
  /\ ops = 0
  /\ linesRead = 0
  /\ msgsSet = FALSE
  /\ renderedCcid = NoConv
  /\ renderedIsLoading = FALSE
  /\ closureMessages = <<>>
  /\ rows = <<>>
  /\ currentPage = 1
  /\ body = <<>>
  /\ bytesRead = 0
  /\ applied = <<>>
  /\ last = Did("mount", NoBot)

\* loadData: getConversations resolved (with [] when the request failed).
LoadListed(c, loaded) ==
  /\ c.op = "load" /\ c.pc = "getConversations"
  /\ conversations' = loaded
  /\ LET currentId == localStorage.cur
     IN IF currentId # NoConv /\ FindIndex(loaded, currentId) # 0
        THEN /\ currentConversationId' = currentId
             /\ calls' = (calls \ {c}) \cup {At(c, "getConversation", currentId)}
             /\ isLoading' = isLoading
        ELSE /\ currentConversationId' = currentConversationId
             /\ calls' = calls \ {c}
             /\ isLoading' = FALSE
  /\ last' = Did("listed", NoBot)
  /\ UNCHANGED <<localStorage, messages, ops>>
  /\ UNCHANGED ChatAppVars

\* loadData: getConversation(currentId) resolved.
LoadRestored(c, conv) ==
  /\ c.op = "load" /\ c.pc = "getConversation"
  /\ messages' = IF conv.ok /\ conv.messages.present THEN conv.messages.v ELSE messages
  /\ isLoading' = FALSE
  /\ calls' = calls \ {c}
  /\ last' = Did("restored", NoBot)
  /\ UNCHANGED <<localStorage, conversations, currentConversationId, ops>>
  /\ UNCHANGED ChatAppVars

\* createNewConversation called: it awaits storage.createConversation.
CreateCalled ==
  /\ ops < MaxOps
  /\ ops' = ops + 1
  /\ calls' = calls \cup {Call("create", "createConversation", NoConv)}
  /\ last' = Did("create", NoBot)
  /\ UNCHANGED <<localStorage, conversations, currentConversationId, messages, isLoading>>
  /\ UNCHANGED ChatAppVars

\* generateTempId: the 'temp-' prefix is the sign of the id.
generateTempId(n) == 0 - n
IsTempId(id) == id < 0

\* The adapter's fallback with the server's kind of id instead of a temporary one.
b_createConversation_NoTempId(n, title, ok) ==
  [id |-> n, title |-> Substring0(title, TITLE_MAX), isPinned |-> FALSE, messageCount |-> 0]

\* What the adapter's createConversation resolves with: the server's
\* conversation, or the local one under a temporary id when the request failed.
b_createConversation(n, title, ok) ==
  IF ok THEN Conversation(n)
  ELSE [id |-> generateTempId(n), title |-> Substring0(title, TITLE_MAX),
        isPinned |-> FALSE, messageCount |-> 0]

\* createNewConversation after its storage.createConversation resolved, up
\* to its await of storage.addMessage; pc is where the call c goes on.
NewConversationMade(c, ok, pc) ==
  /\ c.pc = "createConversation"
  /\ LET newConv == b_createConversation(nextId, NewChatTitle, ok)
     IN /\ conversations' = <<newConv>> \o conversations
        /\ currentConversationId' = newConv.id
        /\ localStorage' = [localStorage EXCEPT !.cur = newConv.id]
        /\ calls' = (calls \ {c}) \cup {At(c, pc, newConv.id)}
  /\ nextId' = nextId + 1
  /\ UNCHANGED <<messages, isLoading, ops>>
  /\ UNCHANGED <<typingIntervalRef, timers, effectCleanup, sends, turn, linesRead, msgsSet, renderedCcid, renderedIsLoading, closureMessages,
                 rows, currentPage, body, bytesRead, applied>>

\* createNewConversation (Sidebar): storage.createConversation resolved.
CreateResolved(c, ok) ==
  /\ c.op = "create"
  /\ NewConversationMade(c, ok, "addMessage")
  /\ last' = Did(IF ok THEN "created" ELSE "created-temp", NoBot)

\* storage.addMessage(newConv.id, welcomeMessage) resolved; it never rejects.
CreateWelcomed(c) ==
  /\ c.op = "create" /\ c.pc = "addMessage"
  /\ messages' = <<welcomeMessage>>
  /\ calls' = calls \ {c}
  /\ last' = Did("welcomed", NoBot)
  /\ UNCHANGED <<localStorage, conversations, currentConversationId, isLoading, ops>>
  /\ UNCHANGED ChatAppVars

\* switchConversation(id) called: it returns at once for the current id of
\* its closure, and awaits storage.getConversation otherwise.
SwitchCalled(i) ==
  /\ ops < MaxOps
  /\ ops' = ops + 1
  /\ calls' = IF conversations[i].id = currentConversationId THEN calls
              ELSE calls \cup {Call("switch", "getConversation", conversations[i].id)}
  /\ last' = Did("switch", NoBot)
  /\ UNCHANGED <<localStorage, conversations, currentConversationId, messages, isLoading>>
  /\ UNCHANGED ChatAppVars

\* The end of switchConversation, for the call c at its getConversation.
SwitchEnd(c, conv) ==
  /\ c.pc = "getConversation"
  /\ IF conv.ok
     THEN /\ currentConversationId' = c.to
          /\ localStorage' = [localStorage EXCEPT !.cur = c.to]
          /\ messages' = OrEmpty(conv.messages)
     ELSE UNCHANGED <<currentConversationId, localStorage, messages>>
  /\ calls' = calls \ {c}
  /\ UNCHANGED <<conversations, isLoading, ops>>
  /\ UNCHANGED ChatAppVars

SwitchResolved(c, conv) ==
  /\ c.op = "switch"
  /\ SwitchEnd(c, conv)
  /\ last' = Did("switched", NoBot)

\* deleteConversationHandler(id) called: it awaits storage.deleteConversation.
DeleteCalled(i) ==
  /\ ops < MaxOps
  /\ ops' = ops + 1
  /\ calls' = calls \cup {Call("delete", "deleteConversation", conversations[i].id)}
  /\ last' = Did("delete", NoBot)
  /\ UNCHANGED <<localStorage, conversations, currentConversationId, messages, isLoading>>
  /\ UNCHANGED ChatAppVars

\* storage.deleteConversation resolved, with true or false: the handler does
\* not look at it.  switchConversation is the one of the handler's closure.
DeleteResolved(c) ==
  /\ c.op = "delete" /\ c.pc = "deleteConversation"
  /\ conversations' = FilterOut(conversations, c.id)
  /\ LET remaining == FilterOut(c.convs, c.id)
     IN IF c.id # c.cid
        THEN /\ calls' = calls \ {c}
             /\ UNCHANGED <<currentConversationId, messages>>
        ELSE IF Len(remaining) > 0
        THEN /\ calls' = (calls \ {c}) \cup {At(c, "getConversation", remaining[1].id)}
             /\ UNCHANGED <<currentConversationId, messages>>
        ELSE /\ calls' = calls \ {c}
             /\ currentConversationId' = NoConv
             /\ messages' = <<>>
  /\ last' = Did("deleted", NoBot)
  /\ UNCHANGED <<localStorage, isLoading, ops>>
  /\ UNCHANGED ChatAppVars

\* The switchConversation that deleteConversationHandler awaits resolved.
DeleteSwitched(c, conv) ==
  /\ c.op = "delete"
  /\ SwitchEnd(c, conv)
  /\ last' = Did("delete-switched", NoBot)

\* The messages and the updates the chat app hands to the container.
AddedMessages == {userMessage(1, Str("hi", 2)), botMessage(1)}
HandedUpdates == {[answer |-> <<"a", "b">>, isThinking |-> FALSE, isStreaming |-> TRUE]}

\* addMessage(message) called: without a current conversation in its closure
\* it awaits createNewConversation, otherwise storage.addMessage.
AddCalled(message) ==
  /\ ops < MaxOps
  /\ ops' = ops + 1
  /\ LET c == Call("add", IF currentConversationId = NoConv THEN "createConversation" ELSE "addMessage",
                   currentConversationId)
     IN calls' = calls \cup {[c EXCEPT !.message = message]}
  /\ last' = Did("add", message.id)
  /\ UNCHANGED <<localStorage, conversations, currentConversationId, messages, isLoading>>
  /\ UNCHANGED ChatAppVars

\* addMessage: the storage.createConversation of its createNewConversation resolved.
AddCreated(c, ok) ==
  /\ c.op = "add"
  /\ NewConversationMade(c, ok, "welcome")
  /\ last' = Did(IF ok THEN "add-created" ELSE "add-created-temp", c.message.id)

\* addMessage: createNewConversation returned, storage.addMessage is awaited.
AddWelcomed(c) ==
  /\ c.op = "add" /\ c.pc = "welcome"
  /\ messages' = <<welcomeMessage>>
  /\ calls' = (calls \ {c}) \cup {At(c, "addMessage", c.to)}
  /\ last' = Did("add-welcomed", c.message.id)
  /\ UNCHANGED <<localStorage, conversations, currentConversationId, isLoading, ops>>
  /\ UNCHANGED ChatAppVars

\* addMessage: storage.addMessage resolved, with the server's message or,
\* when the request failed, with the message itself; it never rejects.
AddStored(c) ==
  /\ c.op = "add" /\ c.pc = "addMessage"
  /\ messages' = Append(messages, c.message)
  /\ calls' = IF c.message.role = "user" /\ c.message.content.n > 0
              THEN (calls \ {c}) \cup {At(c, "getConversations", c.to)}
              ELSE calls \ {c}
  /\ last' = Did("add-stored", c.message.id)
  /\ UNCHANGED <<localStorage, conversations, currentConversationId, isLoading, ops>>
  /\ UNCHANGED ChatAppVars

\* addMessage: the refresh of the list resolved ([] when the request failed).
AddRefreshed(c, updatedConversations) ==
  /\ c.op = "add" /\ c.pc = "getConversations"
  /\ conversations' = updatedConversations
  /\ calls' = calls \ {c}
  /\ last' = Did("add-refreshed", c.message.id)
  /\ UNCHANGED <<localStorage, currentConversationId, messages, isLoading, ops>>
  /\ UNCHANGED ChatAppVars

\* updateMessageHandler(messageId, updates) called: the list changes at
\* once, then storage.updateMessage is awaited with a current conversation.
UpdateCalled(messageId, updates) ==
  /\ ops < MaxOps
  /\ ops' = ops + 1
  /\ messages' = MapUpdate(messages, messageId, updates)
  /\ calls' = IF currentConversationId = NoConv THEN calls
              ELSE calls \cup {Call("update", "updateMessage", currentConversationId)}
  /\ last' = Did("update", messageId)
  /\ UNCHANGED <<localStorage, conversations, currentConversationId, isLoading>>
  /\ UNCHANGED ChatAppVars

\* storage.updateMessage resolved; the handler ignores the result.
UpdateResolved(c) ==
  /\ c.op = "update" /\ c.pc = "updateMessage"
  /\ calls' = calls \ {c}
  /\ last' = Did("updated", NoBot)
  /\ UNCHANGED <<localStorage, conversations, currentConversationId, messages, isLoading, ops>>
  /\ UNCHANGED ChatAppVars

ConversationsLoad == \E c \in calls : \E loaded \in ServerLists : LoadListed(c, loaded)
CurrentLoads == \E c \in calls : \E conv \in Responses : LoadRestored(c, conv)
CreateCall == CreateCalled
CreateResolves == \E c \in calls : \E ok \in BOOLEAN : CreateResolved(c, ok)
WelcomeResolves == \E c \in calls : CreateWelcomed(c)
SwitchCall == \E i \in 1..Len(conversations) : SwitchCalled(i)
SwitchResolves == \E c \in calls : \E conv \in Responses : SwitchResolved(c, conv)
DeleteCall == \E i \in 1..Len(conversations) : DeleteCalled(i)
DeleteResolves == \E c \in calls : DeleteResolved(c)
DeleteSwitches == \E c \in calls : \E conv \in Responses : DeleteSwitched(c, conv)
AddCall == \E message \in AddedMessages : AddCalled(message)
AddCreates == \E c \in calls : \E ok \in BOOLEAN : AddCreated(c, ok)
AddWelcomes == \E c \in calls : AddWelcomed(c)
AddStores == \E c \in calls : AddStored(c)
AddRefreshes == \E c \in calls : \E list \in ServerLists : AddRefreshed(c, list)
UpdateCall == \E updates \in HandedUpdates : UpdateCalled(BotId(1), updates)
UpdateResolves == \E c \in calls : UpdateResolved(c)

NextBackend ==
  \/ ConversationsLoad
  \/ CurrentLoads
  \/ CreateCall
  \/ CreateResolves
  \/ WelcomeResolves
  \/ SwitchCall
  \/ SwitchResolves
  \/ DeleteCall
  \/ DeleteResolves
  \/ DeleteSwitches
  \/ AddCall
  \/ AddCreates
  \/ AddWelcomes
  \/ AddStores
  \/ AddRefreshes
  \/ UpdateCall
  \/ UpdateResolves

SpecBackend == InitBackend /\ [][NextBackend]_vars

\* The backend variant with a server that answered the requests of the mount
\* and is unreachable from then on: every request of an operation fails.
Unreachable == [ok |-> FALSE, messages |-> JsNull]
OfflineCreates == \E c \in calls : CreateResolved(c, FALSE)
OfflineSwitches == \E c \in calls : SwitchResolved(c, Unreachable)
OfflineDeleteSwitches == \E c \in calls : DeleteSwitched(c, Unreachable)
OfflineAddCreates == \E c \in calls : AddCreated(c, FALSE)
OfflineAddRefreshes == \E c \in calls : AddRefreshed(c, <<>>)

NextOffline ==
  \/ ConversationsLoad
  \/ CurrentLoads
  \/ CreateCall
  \/ OfflineCreates
  \/ WelcomeResolves
  \/ SwitchCall
  \/ OfflineSwitches
  \/ DeleteCall
  \/ DeleteResolves
  \/ OfflineDeleteSwitches
  \/ AddCall
  \/ OfflineAddCreates
  \/ AddWelcomes
  \/ AddStores
  \/ OfflineAddRefreshes
  \/ UpdateCall
  \/ UpdateResolves

SpecOffline == InitBackend /\ [][NextOffline]_vars

\* ------------------------------------ storageService.js driven on its own
\* The exported functions of the local storage adapter called in any order,
\* as the containers, the sidebar and the header call them.
MaxCalls == 4      \* calls of the storage adapter

Titles == {NewChatTitle, Str("Q3 loans", 8), Str("a long title", 60)}
Renames == {Str("Budget", 6), Str("a long new title", 60)}
StoredContents == {Str("hi", 2), Str("a long question", 60)}
StoredMessages(t) == {userMessage(t, content) : content \in StoredContents} \cup {botMessage(t)}
StoredUpdates == {[answer |-> <<"a">>, isThinking |-> FALSE], [isStreaming |-> FALSE]}
Made == 1..(nextId - 1)

InitStorage == Init

StorageStep(w, did) ==
  /\ ops < MaxCalls
  /\ localStorage' = w.ls
  /\ nextId' = w.nextId
  /\ ops' = ops + 1
  /\ last' = did
  /\ UNCHANGED <<conversations, currentConversationId, messages, isLoading, typingIntervalRef,
                 timers, effectCleanup, sends, turn, linesRead, msgsSet, renderedCcid, renderedIsLoading, closureMessages, calls,
                 rows, currentPage, body, bytesRead, applied>>

StCreate(title) ==
  /\ nextId \in ConvIds
  /\ StorageStep(st_createConversation(World, title), [op |-> "create", id |-> nextId])

\* handleSaveRename, handleTitleSave: the trimmed, non-empty text of the input.
StRename(id, title) ==
  StorageStep(st_updateConversation(World, id, [title |-> title]), [op |-> "rename", id |-> id])

\* handlePin
StPin(id) ==
  /\ st_getConversationFound(World, id)
  /\ LET list == OrEmpty(getConversations(World))
         conv == list[FindIndex(list, id)]
     IN StorageStep(st_updateConversation(World, id, [isPinned |-> ~conv.isPinned]),
                    [op |-> "pin", id |-> id])

StAdd(id, message) ==
  LET w == st_addMessage(World, id, message)
  IN StorageStep(w, [op |-> IF w.threw THEN "add-threw" ELSE "add", id |-> id, message |-> message])

StUpdate(id, i, updates) ==
  LET w == st_updateMessage(World, id, BotId(i), updates)
  IN StorageStep(w, [op |-> IF w.threw THEN "update-threw" ELSE "update", id |-> id])

StDelete(id) ==
  StorageStep(st_deleteConversation(World, id),
              [op |-> "delete", id |-> id, current |-> getCurrentConversationId(World),
               returned |-> st_deleteConversationReturns(World, id)])

StSetCurrent(id) ==
  StorageStep(setCurrentConversationId(World, id), [op |-> "current", id |-> id])

StClearAll ==
  LET w == st_clearAllData(World)
  IN StorageStep(w, [op |-> IF w.threw THEN "clear-threw" ELSE "clear", id |-> NoConv])

StStats ==
  LET w == st_getStorageStats(World)
  IN StorageStep(w, [op |-> IF w.threw THEN "stats-threw" ELSE "stats", id |-> NoConv])

CreateStored == \E title \in Titles : StCreate(title)
RenameStored == \E id \in Made, title \in Renames : StRename(id, title)
PinStored == \E id \in Made : StPin(id)
AddStoredMessage == \E id \in Made, message \in StoredMessages(ops) : StAdd(id, message)
UpdateStoredMessage == \E id \in Made, i \in 0..(MaxCalls - 1), updates \in StoredUpdates : StUpdate(id, i, updates)
DeleteStored == \E id \in Made : StDelete(id)
CurrentStored == \E id \in Made \cup {NoConv} : StSetCurrent(id)

NextStorage ==
  \/ CreateStored
  \/ RenameStored
  \/ PinStored
  \/ AddStoredMessage
  \/ UpdateStoredMessage
  \/ DeleteStored
  \/ CurrentStored
  \/ StClearAll
  \/ StStats

SpecStorage == InitStorage /\ [][NextStorage]_vars

\* ----------------------------------------------- groupConversationsByDate
\* Conversations have distinct ids; one the server sent has its _id as well.
\* A Date is invalid (NaN) or a local day number; today, yesterday, lastWeek
\* and lastMonth are local midnights, so date >= bound compares day numbers,
\* and a comparison with an invalid Date is false.
MaxGrouped == 2    \* conversations handed to groupConversationsByDate
MaxDays == 1       \* days the clock advances

InvalidDate == [valid |-> FALSE, day |-> 0]
DateOn(d) == [valid |-> TRUE, day |-> d]
DateGE(date, bound) == date.valid /\ date.day >= bound

\* Tomorrow and the lower bounds of the four date buckets on day 0; one day
\* later each of them is the last day outside its bucket.
UpdatedAts == {InvalidDate} \cup {DateOn(d) : d \in {1, 0, -1, -7, -30}}
GroupedChoices ==
  {[id |-> 0, mongoId |-> u, title |-> NewChatTitle, isPinned |-> p, messageCount |-> 0, updatedAt |-> d] :
     u \in {0, 9}, p \in BOOLEAN, d \in UpdatedAts}
GroupInputs ==
  UNION {{[i \in 1..k |-> [f[i] EXCEPT !.id = i, !.mongoId = IF @ # 0 THEN @ + i ELSE 0]] :
            f \in [1..k -> GroupedChoices]} : k \in 0..MaxGrouped}

EmptyGroups == [pinned |-> <<>>, today |-> <<>>, yesterday |-> <<>>,
                lastWeek |-> <<>>, lastMonth |-> <<>>, older |-> <<>>]

\* The date branches are tried before the pinned branch.
GroupOf_DateFirst(conv, today) ==
  LET date == conv.updatedAt
  IN IF DateGE(date, today) THEN "today"
     ELSE IF DateGE(date, today - 1) THEN "yesterday"
     ELSE IF DateGE(date, today - 7) THEN "lastWeek"
     ELSE IF DateGE(date, today - 30) THEN "lastMonth"
     ELSE IF conv.isPinned THEN "pinned"
     ELSE "older"

\* The body of the forEach callback: the group conv is pushed to.
GroupOf(conv, today) ==
  IF conv.isPinned THEN "pinned"
  ELSE LET date == conv.updatedAt
       IN IF DateGE(date, today) THEN "today"
          ELSE IF DateGE(date, today - 1) THEN "yesterday"
          ELSE IF DateGE(date, today - 7) THEN "lastWeek"
          ELSE IF DateGE(date, today - 30) THEN "lastMonth"
          ELSE "older"

\* Backend variant: { ...conv, id: conv._id || conv.id }
mappedConv(conv) == [conv EXCEPT !.id = IF conv.mongoId # 0 THEN conv.mongoId ELSE conv.id]
Pushed(conv, backend) == IF backend THEN mappedConv(conv) ELSE conv

RECURSIVE ForEachGroup(_, _, _, _, _)
ForEachGroup(list, i, today, backend, groups) ==
  IF i > Len(list) THEN groups
  ELSE LET g == GroupOf(Pushed(list[i], backend), today)
       IN ForEachGroup(list, i + 1, today, backend,
                       [groups EXCEPT ![g] = Append(@, Pushed(list[i], backend))])

groupConversationsByDate(list, today, backend) == ForEachGroup(list, 1, today, backend, EmptyGroups)

InitGroups ==
  /\ localStorage = [convs |-> JsNull, cur |-> NoConv, msgs |-> [c \in ConvIds |-> JsNull]]
  /\ nextId = 1
  /\ conversations \in GroupInputs
  /\ currentConversationId = NoConv
  /\ messages = <<>>
  /\ isLoading = FALSE
  /\ typingIntervalRef = NoTimer
  /\ timers = {}
  /\ effectCleanup = FALSE
  /\ sends = {}
  /\ calls = {}
  /\ turn = 0
  /\ ops = 0
  /\ linesRead = 0
  /\ msgsSet = FALSE
  /\ renderedCcid = NoConv
  /\ renderedIsLoading = FALSE
  /\ closureMessages = <<>>
  /\ rows = <<>>
  /\ currentPage = 1
  /\ body = <<>>
  /\ bytesRead = 0
  /\ applied = <<>>
  /\ last = Did("mount", NoBot)

GroupsUnchanged ==
  UNCHANGED <<localStorage, nextId, conversations, currentConversationId, messages, isLoading,
              typingIntervalRef, timers, effectCleanup, sends, ops, linesRead, msgsSet,
              renderedCcid, renderedIsLoading, closureMessages, calls, rows, currentPage, body, bytesRead, applied>>

\* The provider renders: groupedConversations is computed from its list.
ProviderGroups(backend) ==
  /\ last' = [op |-> "group", backend |-> backend, today |-> turn,
              groups |-> groupConversationsByDate(conversations, turn, backend)]
  /\ turn' = turn
  /\ GroupsUnchanged

LocalProviderGroups == ProviderGroups(FALSE)
BackendProviderGroups == ProviderGroups(TRUE)

\* Midnight passes.
DayPasses ==
  /\ turn < MaxDays
  /\ turn' = turn + 1
  /\ last' = Did("day", NoBot)
  /\ GroupsUnchanged

NextGroups ==
  \/ LocalProviderGroups
  \/ BackendProviderGroups
  \/ DayPasses

SpecGroups == InitGroups /\ [][NextGroups]_vars

\* ------------------------------------------- MessageBubble.jsx: PaginatedTable
ROWS_PER_PAGE == 10
MaxRows == 32      \* rows of a flat table

Ceil(n, k) == (n + k - 1) \div k

\* list.slice(start, end) with 0 <= start <= end; end is inclusive here.
Slice_Inclusive(list, start, end) == SubSeq(list, start + 1, Min(end + 1, Len(list)))

\* list.slice(start, end) with 0 <= start <= end
Slice(list, start, end) == SubSeq(list, start + 1, Min(end, Len(list)))

Tables == {[i \in 1..n |-> i] : n \in 0..MaxRows}
totalRows(t) == Len(t)
totalPages(t) == Ceil(totalRows(t), ROWS_PER_PAGE)
currentRows(t, page) ==
  LET startIdx == (page - 1) * ROWS_PER_PAGE
      endIdx == startIdx + ROWS_PER_PAGE
  IN Slice(t, startIdx, endIdx)

InitTable ==
  /\ localStorage = [convs |-> JsNull, cur |-> NoConv, msgs |-> [c \in ConvIds |-> JsNull]]
  /\ nextId = 1
  /\ conversations = <<>>
  /\ currentConversationId = NoConv
  /\ messages = <<>>
  /\ isLoading = FALSE
  /\ typingIntervalRef = NoTimer
  /\ timers = {}
  /\ effectCleanup = FALSE
  /\ sends = {}
  /\ calls = {}
  /\ turn = 0
  /\ ops = 0
  /\ linesRead = 0
  /\ msgsSet = FALSE
  /\ renderedCcid = NoConv
  /\ renderedIsLoading = FALSE
  /\ closureMessages = <<>>
  /\ rows \in Tables
  /\ currentPage = 1
  /\ body = <<>>
  /\ bytesRead = 0
  /\ applied = <<>>
  /\ last = [op |-> "mount", shown |-> currentRows(rows, 1)]

TableUnchanged ==
  UNCHANGED <<localStorage, nextId, conversations, currentConversationId, messages, isLoading,
              typingIntervalRef, timers, effectCleanup, sends, turn, ops, linesRead, msgsSet,
              renderedCcid, renderedIsLoading, closureMessages, calls, body, bytesRead, applied>>

\* goToPage(page), then the render that shows currentRows.
goToPage(page, op) ==
  /\ currentPage' = IF page >= 1 /\ page <= totalPages(rows) THEN page ELSE currentPage
  /\ rows' = rows
  /\ last' = [op |-> op, shown |-> currentRows(rows, currentPage')]
  /\ TableUnchanged

Controls == totalPages(rows) > 1
FirstPage == Controls /\ currentPage # 1 /\ goToPage(1, "first")
PrevPage == Controls /\ currentPage # 1 /\ goToPage(currentPage - 1, "prev")
NextPage == Controls /\ currentPage # totalPages(rows) /\ goToPage(currentPage + 1, "next")
LastPage == Controls /\ currentPage # totalPages(rows) /\ goToPage(totalPages(rows), "last")

\* Enter in the page input: parseInt of what was typed.
JumpToPage ==
  /\ Controls
  /\ \E page \in 0..(Ceil(MaxRows, ROWS_PER_PAGE) + 1) :
       /\ page >= 1 /\ page <= totalPages(rows)
       /\ goToPage(page, "jump")

\* The message's table is replaced (a later table frame): the component
\* keeps its currentPage.
TableReplaced ==
  /\ \E t \in Tables :
       /\ t # rows
       /\ rows' = t
       /\ last' = [op |-> "table", shown |-> currentRows(t, currentPage)]
  /\ currentPage' = currentPage
  /\ TableUnchanged

NextTable ==
  \/ FirstPage
  \/ PrevPage
  \/ NextPage
  \/ LastPage
  \/ JumpToPage
  \/ TableReplaced

SpecTable == InitTable /\ [][NextTable]_vars

\* ------------------------------------------- the stream loop on a byte stream
\* The text of a body is a sequence of pieces of text; reader.read() may cut
\* it between any two of them.  A well-formed line is the marker 'data: '
\* (two pieces), the JSON text of a frame (two pieces) and a newline.
MaxFrames == 2     \* frames of a response body

NoData == Frame("status", <<>>, Null)
Piece(k, frame) == [k |-> k, frame |-> frame]
EncodeLine(frame) ==
  <<Piece("da", NoData), Piece("ta: ", NoData), Piece("{", frame), Piece("}", frame),
    Piece("newline", NoData)>>
BodyFrames == {Frame("text", <<"a", "b">>, Null), Frame("table", <<>>, "p1"),
               Frame("done", <<>>, Null), Frame("status", <<>>, Null)}
RECURSIVE EncodeBody(_)
EncodeBody(frames) == IF frames = <<>> THEN <<>> ELSE EncodeLine(Head(frames)) \o EncodeBody(Tail(frames))
Bodies == UNION {{EncodeBody(fs) : fs \in [1..k -> BodyFrames]} : k \in 0..MaxFrames}

\* chunk.split('\n'): the texts between the newlines, the last one included.
RECURSIVE Split(_, _)
Split(chunk, line) ==
  IF chunk = <<>> THEN <<line>>
  ELSE IF Head(chunk).k = "newline" THEN <<line>> \o Split(Tail(chunk), <<>>)
  ELSE Split(Tail(chunk), Append(line, Head(chunk)))

\* line.startsWith('data: ')
StartsWithMarker(line) == Len(line) >= 2 /\ line[1].k = "da" /\ line[2].k = "ta: "
\* JSON.parse(line.slice(6)) returns: the text is the whole JSON text of a frame.
JsonParses(line) == Len(line) = 4 /\ line[3].k = "{" /\ line[4].k = "}"

\* The updates one line of the for loop passes to updateMessage.
LineUpdates(line) ==
  IF StartsWithMarker(line) /\ JsonParses(line) /\ Recognized(line[3].frame)
  THEN <<FrameUpdates(line[3].frame)>>
  ELSE <<>>

RECURSIVE LinesUpdates(_)
LinesUpdates(lines) == IF lines = <<>> THEN <<>> ELSE LineUpdates(Head(lines)) \o LinesUpdates(Tail(lines))
ChunkUpdates(chunk) == LinesUpdates(Split(chunk, <<>>))

InitStream ==
  /\ localStorage = [convs |-> JsNull, cur |-> NoConv, msgs |-> [c \in ConvIds |-> JsNull]]
  /\ nextId = 1
  /\ conversations = <<>>
  /\ currentConversationId = NoConv
  /\ messages = <<>>
  /\ isLoading = TRUE
  /\ typingIntervalRef = NoTimer
  /\ timers = {}
  /\ effectCleanup = FALSE
  /\ sends = {}
  /\ calls = {}
  /\ turn = 0
  /\ ops = 0
  /\ linesRead = 0
  /\ msgsSet = FALSE
  /\ renderedCcid = NoConv
  /\ renderedIsLoading = FALSE
  /\ closureMessages = <<>>
  /\ rows = <<>>
  /\ currentPage = 1
  /\ body \in Bodies
  /\ bytesRead = 0
  /\ applied = <<>>
  /\ last = Did("fetch", NoBot)

StreamUnchanged ==
  UNCHANGED <<localStorage, nextId, conversations, currentConversationId, messages,
              typingIntervalRef, timers, effectCleanup, sends, turn, ops, linesRead, msgsSet,
              renderedCcid, renderedIsLoading, closureMessages, calls, rows, currentPage, body>>

\* One iteration of the while loop: reader.read() returns the next k pieces.
ChunkRead(k) ==
  /\ isLoading
  /\ bytesRead + k <= Len(body)
  /\ applied' = applied \o ChunkUpdates(SubSeq(body, bytesRead + 1, bytesRead + k))
  /\ bytesRead' = bytesRead + k
  /\ last' = Did(IF k = Len(body) THEN "whole" ELSE "chunk", NoBot)
  /\ isLoading' = isLoading
  /\ StreamUnchanged

BodyChunkRead == \E k \in 1..(5 * MaxFrames) : ChunkRead(k)

\* reader.read() reports done: break, finally.
BodyEnds ==
  /\ isLoading
  /\ bytesRead = Len(body)
  /\ isLoading' = FALSE
  /\ last' = Did("end", NoBot)
  /\ UNCHANGED <<bytesRead, applied>>
  /\ StreamUnchanged

NextStream ==
  \/ BodyChunkRead
  \/ BodyEnds

SpecStream == InitStream /\ [][NextStream]_vars

\* --------------------------------------- a conversation with a long history
\* The state after a mount with one stored conversation of several turns:
\* the welcome message, then a user message and a bot message per turn.  A
\* bot message whose body was empty has no answer and is still thinking.
MaxPast == 10      \* turns of the stored conversation

PastBot(k, answered) ==
  IF answered THEN [BlankMessage EXCEPT !.id = BotId(0 - k), !.answer = <<"a", "b">>,
                                        !.displayedAnswer = <<"a", "b">>]
  ELSE botMessage(0 - k)
RECURSIVE PastMessages(_, _)
PastMessages(k, every) ==
  IF k = 0 THEN <<welcomeMessage>>
  ELSE PastMessages(k - 1, every)
         \o <<userMessage(0 - k, Str("hi", 2)), PastBot(k, k % every = 0)>>
\* 19 and 21 messages; every second bot message has an answer.
PastLists == {PastMessages(k, 2) : k \in (MaxPast - 1)..MaxPast}
PastConversation(list) == [id |-> 1, title |-> Str("hi", 2), isPinned |-> FALSE, messageCount |-> Len(list)]

InitHistory ==
  \E list \in PastLists :
    /\ localStorage = [convs |-> Stored(<<PastConversation(list)>>), cur |-> 1,
                       msgs |-> [c \in ConvIds |-> IF c = 1 THEN Stored(list) ELSE JsNull]]
    /\ nextId = 2
    /\ conversations = <<PastConversation(list)>>
    /\ currentConversationId = 1
    /\ messages = list
    /\ isLoading = FALSE
    /\ typingIntervalRef = NoTimer
    /\ timers = {}
    /\ effectCleanup = FALSE
    /\ sends = {}
    /\ calls = {}
    /\ turn = 0
    /\ ops = 0
    /\ linesRead = 0
    /\ msgsSet = FALSE
    /\ renderedCcid = 1
    /\ renderedIsLoading = FALSE
    /\ closureMessages = list
    /\ rows = <<>>
    /\ currentPage = 1
    /\ body = <<>>
    /\ bytesRead = 0
    /\ applied = <<>>
    /\ last = Did("mount", NoBot)

\* The chat in that conversation: ChatApp without the sidebar.
NextHistory ==
  \/ Render
  \/ SendMessage
  \/ SendIgnored
  \/ FetchResolves
  \/ RequestFails
  \/ ReaderReads
  \/ ReaderEnds
  \/ IntervalFires

SpecHistory == InitHistory /\ [][NextHistory]_vars

\* ------------------------------------------------------- helper predicates
Placeholders(botMessageId) == {i \in 1..Len(messages) : messages[i].id = botMessageId}
Persisted(cid) == localStorage.msgs[cid]
IndexOf(list, id) == FindIndex(list, id)

\* C1: for a stream of well-formed frames that ended with a done frame, once
\* the done frame was processed and the typing effect has run, the bot
\* placeholder's answer and displayedAnswer equal the data of the last text
\* frame of the stream.
C1_FinalTextIsLastText ==
  \A s \in sends :
    (s.pc = "returned" /\ s.lastDone /\ s.hadText /\ Rendered) =>
      \A i \in Placeholders(s.botMessageId) :
        messages[i].answer = s.lastText /\ messages[i].displayedAnswer = s.lastText

\* C2: after any sequence of container operations the in-memory messages
\* list equals the list persisted for the current conversation, and without
\* a current conversation nothing is persisted as current.
C2_MessagesReflectPersisted ==
  currentConversationId # NoConv =>
    /\ Persisted(currentConversationId).present
    /\ Persisted(currentConversationId).v = messages

\* C3: a sendMessage call without an active conversation creates one
\* conversation, which becomes current, and leaves the user message followed by
\* the bot placeholder both in the in-memory list and in that conversation's
\* persisted list.
UserThenBot(list, t) ==
  \E i \in 1..(Len(list) - 1) : list[i].id = UserId(t) /\ list[i + 1].id = BotId(t)
C3_AutoCreatesOneConversation ==
  \A s \in sends :
    (last.op = "send" /\ last.id = s.botMessageId /\ s.cid = NoConv) =>
      /\ nextId = s.idsBefore + 1
      /\ currentConversationId = s.idsBefore
      /\ UserThenBot(messages, turn)
      /\ Persisted(s.idsBefore).present
      /\ UserThenBot(Persisted(s.idsBefore).v, turn)

\* C4: after deleteConversation(id) of the current conversation, the deleted
\* conversation is no longer listed, and: if conversations remain, the
\* current id is the id of one of them and messages are that conversation's
\* messages; if none remain, the current id is null and messages is empty.
\* Backend variant (SpecBackend): stated of the step that ends the handler,
\* with no other call in flight and the list as it was at the call.
Listed(list, id) == FindIndex(list, id) # 0
SwitchedOrCleared(id) ==
  /\ ~Listed(conversations', id)
  /\ IF conversations' # <<>>
     THEN Listed(conversations', currentConversationId')
     ELSE currentConversationId' = NoConv /\ messages' = <<>>
C4_DeleteCurrentSwitchesOrClears ==
  [][\A c \in calls :
       (/\ c.op = "delete" /\ c.id = c.cid
        /\ calls = {c} /\ calls' = {}
        /\ FilterOut(c.convs, c.id) = FilterOut(conversations, c.id)) =>
         /\ SwitchedOrCleared(c.id)
         /\ \A conv \in Responses : DeleteSwitched(c, conv) => messages' = OrEmpty(conv.messages)]_vars

\* C4, local-storage variant (Spec): the same statement of the synchronous
\* deleteConversation, messages being those stored for the current id.
C4_LocalDeleteSwitchesOrClears ==
  [][\A i \in 1..Len(conversations) :
       (Delete(i) /\ conversations[i].id = currentConversationId) =>
         /\ SwitchedOrCleared(conversations[i].id)
         /\ conversations' # <<>> => messages' = OrEmpty(Persisted(currentConversationId'))]_vars

\* C5: when the request fails, the bot placeholder of the turn ends as an
\* error message with the fixed text, isLoading is false again and the send
\* issues no second request.
IsErrorMessage(m) ==
  /\ m.isError /\ ~m.isStreaming /\ ~m.isThinking
  /\ m.answer = ErrorText /\ m.displayedAnswer = ErrorText
C5_FailureRewritesPlaceholder ==
  \A s \in sends :
    s.pc = "failed" =>
      /\ \A i \in Placeholders(s.botMessageId) : IsErrorMessage(messages[i])
      /\ \A r \in InFlight : r.botMessageId # s.botMessageId
      /\ last = Did("error", s.botMessageId) => ~isLoading

\* C9: the displayedAnswer of a streaming bot message is a prefix of its
\* answer in every reachable state.
C9_DisplayedIsPrefixWhileStreaming ==
  \A i \in 1..Len(messages) :
    (messages[i].role = "bot" /\ messages[i].isStreaming) =>
      IsPrefix(messages[i].displayedAnswer, messages[i].answer)

\* C8: while the last bot message is streaming and behind its answer, a
\* timer tick sets displayedAnswer to the prefix of answer one character
\* longer than before.
LastIsStreamingBehind ==
  /\ Len(messages) > 0
  /\ messages[Len(messages)].role = "bot"
  /\ messages[Len(messages)].isStreaming
  /\ messages[Len(messages)].displayedAnswer # messages[Len(messages)].answer
TickAddsOneCharacter ==
  LET n == Len(messages)
      before == messages[n].displayedAnswer
      after == messages'[n].displayedAnswer
  IN /\ Len(messages') = n
     /\ Len(after) = Len(before) + 1
     /\ IsPrefix(after, messages[n].answer)
     /\ IsPrefix(before, after)
C8_TickAddsOneCharacter ==
  [][(IntervalFires /\ LastIsStreamingBehind) => TickAddsOneCharacter]_vars

\* C6: each recognized frame changes only its own fields of the bot
\* placeholder (text: answer replaced, isThinking false, isStreaming true;
\* table, chart, evidence: the field of that name; done: isStreaming and
\* isThinking false), a frame of another type changes nothing, and no frame
\* changes another message, in memory or in storage.
AfterFrame(m, frame) ==
  CASE frame.type = "text" -> [m EXCEPT !.answer = frame.text, !.isThinking = FALSE, !.isStreaming = TRUE]
    [] frame.type = "table" -> [m EXCEPT !.table = frame.payload]
    [] frame.type = "chart" -> [m EXCEPT !.chart = frame.payload]
    [] frame.type = "evidence" -> [m EXCEPT !.evidence = frame.payload]
    [] frame.type = "done" -> [m EXCEPT !.isStreaming = FALSE, !.isThinking = FALSE]
    [] OTHER -> m
OnlyPlaceholderChanged(before, after, botMessageId, frame) ==
  /\ Len(after) = Len(before)
  /\ \A i \in 1..Len(before) :
       after[i] = IF before[i].id = botMessageId THEN AfterFrame(before[i], frame) ELSE before[i]
FrameEffect(s, frame) ==
  /\ OnlyPlaceholderChanged(messages, messages', s.botMessageId, frame)
  /\ \A c \in ConvIds :
       /\ localStorage'.msgs[c].present = localStorage.msgs[c].present
       /\ \/ localStorage'.msgs[c] = localStorage.msgs[c]
          \/ /\ c = s.cid
             /\ OnlyPlaceholderChanged(localStorage.msgs[c].v, localStorage'.msgs[c].v,
                                       s.botMessageId, frame)
\* A placeholder, in memory and in storage, that a text frame and then a
\* table frame have updated.
C6_Witness ==
  /\ last.op = "chunk"
  /\ \E s \in sends :
       /\ s.pc = "read" /\ s.hadText /\ s.lastText = <<"a", "b">> /\ s.cid # NoConv
       /\ \E i \in Placeholders(s.botMessageId) :
            /\ messages[i].answer = <<"a", "b">> /\ messages[i].table # Null
            /\ messages[i].isStreaming /\ ~messages[i].isThinking
       /\ \E i \in 1..Len(Persisted(s.cid).v) :
            /\ Persisted(s.cid).v[i].id = s.botMessageId
            /\ Persisted(s.cid).v[i].answer = <<"a", "b">>
            /\ Persisted(s.cid).v[i].table # Null
C6_FrameChangesOnlyItsFields ==
  [][\A s \in sends : \A f \in Frames :
       ReadChunk(s, <<Line(TRUE, TRUE, f)>>) => FrameEffect(s, f)]_vars

\* C7: a line that is not valid JSON after the marker, and a line without the
\* marker, change no message and raise no error state; the send goes on
\* reading, and the line after it in the same chunk has its usual effect.
Malformed == {l \in Lines : ~l.marker \/ ~l.json}
NoFrame == Frame("status", <<>>, Null)
LineFrame(l) == IF l.marker /\ l.json THEN l.frame ELSE NoFrame
StillReading(s) ==
  /\ isLoading' = isLoading
  /\ \E r \in sends' : r.botMessageId = s.botMessageId /\ r.pc = "read"
\* A send that skipped a malformed line and then applied a text frame, and is
\* still reading.
C7_Witness ==
  /\ last.op = "chunk-skip"
  /\ isLoading
  /\ \E s \in sends :
       /\ s.pc = "read" /\ s.botMessageId = last.id /\ s.lastText = <<"a", "b">>
       /\ \E i \in Placeholders(s.botMessageId) :
            messages[i].answer = <<"a", "b">> /\ ~messages[i].isError
C7_MalformedLineIsSkipped ==
  [][\A s \in sends : \A l \in Malformed :
       /\ ReadChunk(s, <<l>>) =>
            /\ messages' = messages
            /\ localStorage' = localStorage
            /\ StillReading(s)
       /\ \A l2 \in Lines :
            ReadChunk(s, <<l, l2>>) => (FrameEffect(s, LineFrame(l2)) /\ StillReading(s))]_vars

\* C10: when the last bot message is not streaming, has a non-empty answer
\* and a displayedAnswer different from it, the typing effect sets
\* displayedAnswer to the whole answer in one update and starts no timer.
LastIsStoppedBehind ==
  /\ Len(messages) > 0
  /\ messages[Len(messages)].role = "bot"
  /\ ~messages[Len(messages)].isStreaming
  /\ messages[Len(messages)].answer # <<>>
  /\ messages[Len(messages)].displayedAnswer # messages[Len(messages)].answer
\* A placeholder whose text was behind when streaming ended, right after
\* the effect completed it.
C10_Witness ==
  /\ last.op = "snap"
  /\ timers = {}
  /\ Len(messages) > 0
  /\ messages[Len(messages)].id = last.id
  /\ messages[Len(messages)].answer = <<"a", "b">>
  /\ messages[Len(messages)].displayedAnswer = <<"a", "b">>
  /\ ~messages[Len(messages)].isStreaming
C10_SnapWhenStreamingEnds ==
  [][(Render /\ LastIsStoppedBehind) =>
       /\ messages' = [messages EXCEPT ![Len(messages)].displayedAnswer = messages[Len(messages)].answer]
       /\ timers' \subseteq timers
       /\ typingIntervalRef' = typingIntervalRef]_vars

\* C11: at most one typing interval is active at any moment; an effect run
\* that starts a timer leaves only that timer active, and sendMessage leaves
\* none, so that no earlier timer fires after a newer one was started or
\* after a new message was sent.
C11_Witness ==
  /\ last.op = "send" /\ last.id = BotId(2)
  /\ timers = {}
  /\ typingIntervalRef # NoTimer
  /\ \E i \in 1..Len(messages) :
       /\ messages[i].id = BotId(1) /\ messages[i].isStreaming
       /\ messages[i].displayedAnswer # messages[i].answer
C11_OneTimerAtATime ==
  [][/\ Cardinality(timers') <= 1
     /\ \A t \in timers' : t.tid = typingIntervalRef'
     /\ typingIntervalRef' # typingIntervalRef => \A t \in timers' : t \notin timers
     /\ SendMessage => timers' = {}]_vars

\* C12: a typing tick and a frame of the stream reader applied to the same
\* bot message give the same in-memory list in either order: every field
\* holds the value of the last update that named it, the tick changes
\* displayedAnswer only and the frame never changes displayedAnswer.
TickThenFrame(t, s, l) ==
  ProcessLine(TimerCallback(World, t), s.cid, s.botMessageId, l).messages
FrameThenTick(t, s, l) ==
  TimerCallback(ProcessLine(World, s.cid, s.botMessageId, l), t).messages
BothApplied(t, l) ==
  [i \in 1..Len(messages) |->
     IF messages[i].id = t.id
     THEN [AfterFrame(messages[i], LineFrame(l)) EXCEPT
             !.displayedAnswer = Slice0(t.answer, t.currentIndex + 1)]
     ELSE messages[i]]
C12_Witness ==
  /\ last.op = "tick"
  /\ \E t \in timers : \E s \in sends :
       /\ s.pc = "read" /\ t.id = s.botMessageId /\ t.id = last.id
       /\ t.currentIndex = 1 /\ t.answer = <<"a", "b">>
       /\ \E i \in Placeholders(t.id) :
            messages[i].displayedAnswer = <<"a">> /\ messages[i].answer = <<"a", "b">>
C12_TickAndFrameCommute ==
  \A t \in timers : \A s \in sends : \A l \in Lines :
    (s.pc = "read" /\ t.id = s.botMessageId /\ t.currentIndex < Len(t.answer)) =>
      /\ TickThenFrame(t, s, l) = FrameThenTick(t, s, l)
      /\ TickThenFrame(t, s, l) = BothApplied(t, l)

\* C13: at most one send is waiting for its response body at any time, and
\* while isLoading is true no step starts a send or makes a message of a new
\* turn.
C13_Witness ==
  /\ last.op = "refused"
  /\ isLoading
  /\ linesRead > 0
  /\ \E s \in sends : s.pc = "read" /\ InFlight = {s}
C13_OneReadOutstanding ==
  [][/\ Cardinality({s \in sends' : s.pc \in {"fetch", "read"}}) <= 1
     /\ isLoading =>
          /\ turn' = turn
          /\ \A s \in sends' : \E r \in sends : r.botMessageId = s.botMessageId]_vars

\* C14: each container operation applies its in-memory state change in the
\* step of the call, without waiting for the storage adapter: create lists
\* the new conversation and makes it current, switch makes the target
\* current, delete unlists the conversation, add-message puts the message in
\* the list, update-message merges the updates.
C14_StateChangesWithTheCall ==
  [][/\ CreateCalled =>
          /\ Len(conversations') = Len(conversations) + 1
          /\ currentConversationId' = conversations'[1].id
     /\ \A i \in 1..Len(conversations) :
          /\ (SwitchCalled(i) /\ conversations[i].id # currentConversationId) =>
               currentConversationId' = conversations[i].id
          /\ DeleteCalled(i) => ~Listed(conversations', conversations[i].id)
     /\ \A message \in AddedMessages :
          AddCalled(message) => \E k \in 1..Len(messages') : messages'[k] = message
     /\ \A updates \in HandedUpdates :
          UpdateCalled(BotId(1), updates) => messages' = MapUpdate(messages, BotId(1), updates)]_vars

\* C20: with the backend unreachable, createConversation resolves with a
\* conversation under a temporary id, its title cut to 50 characters and
\* messageCount 0, which the container prepends to the list and makes
\* current; addMessage appends its message to the in-memory list once, in
\* the step after its storage.addMessage, and its other steps append nothing.
MadeLocally(before, after, current) ==
  /\ Len(after) = Len(before) + 1
  /\ after = <<after[1]>> \o before
  /\ IsTempId(after[1].id)
  /\ after[1].title.n <= TITLE_MAX
  /\ after[1].messageCount = 0
  /\ current = after[1].id
C20_Witness ==
  /\ last.op = "add-stored"
  /\ IsTempId(currentConversationId)
  /\ conversations # <<>>
  /\ conversations[1].id = currentConversationId
  /\ messages = <<welcomeMessage, userMessage(1, Str("hi", 2))>>
C20_DegradesToLocalState ==
  [][\A c \in calls :
       /\ (CreateResolved(c, FALSE) \/ AddCreated(c, FALSE)) =>
            /\ MadeLocally(conversations, conversations', currentConversationId')
            /\ messages' = messages
            /\ \E d \in calls' : d.n = c.n
       /\ AddStored(c) => messages' = Append(messages, c.message)
       /\ AddWelcomed(c) => (messages' = <<welcomeMessage>> /\ \E d \in calls' : d.n = c.n)
       /\ AddRefreshed(c, <<>>) => messages' = messages]_vars

\* C15: once streaming has ended for a bot message (the done frame of its
\* send was processed, with a conversation current at the send, and after
\* the typing effect ran displayedAnswer equals answer and the message is
\* not streaming), no later step changes a field of that message.
StreamingEnded(m) ==
  /\ Rendered
  /\ m.role = "bot" /\ ~m.isStreaming /\ ~m.isThinking
  /\ m.displayedAnswer = m.answer
  /\ \E s \in sends : s.botMessageId = m.id /\ s.lastDone /\ s.cid # NoConv
C15_ImmutableOnceStreamingEnds ==
  [][\A i \in 1..Len(messages) : \A j \in 1..Len(messages') :
       (StreamingEnded(messages[i]) /\ messages'[j].id = messages[i].id) =>
         messages'[j] = messages[i]]_vars

\* C16: after any sequence of createConversation, updateConversation (rename)
\* and addMessage (auto-title), the title of every stored conversation has at
\* most 50 characters.
StoredList == OrEmpty(localStorage.convs)
C16_TitleAtMostFifty ==
  \A i \in 1..Len(StoredList) : StoredList[i].title.n <= TITLE_MAX

\* C17: in the local storage adapter the messageCount of every listed
\* conversation equals the length of the message list stored for it, and
\* addMessage appends the message as the last element, leaving the earlier
\* messages unchanged.
CountsMatch ==
  \A i \in 1..Len(StoredList) :
    /\ Persisted(StoredList[i].id).present
    /\ StoredList[i].messageCount = Len(Persisted(StoredList[i].id).v)
AddAppends ==
  last'.op = "add" =>
    localStorage'.msgs[last'.id] = Stored(Append(localStorage.msgs[last'.id].v, last'.message))
C17_Witness ==
  /\ last.op = "add"
  /\ \E i \in 1..Len(StoredList) :
       /\ StoredList[i].id = last.id
       /\ StoredList[i].messageCount = 2
       /\ Persisted(last.id).v[2] = last.message
C17_CountIsLengthAndAddAppends == []CountsMatch /\ [][AddAppends]_vars

\* C18: groupConversationsByDate places each conversation of its input in
\* exactly one of the six groups: a pinned one in pinned whatever its date, an
\* unpinned one in the first date bucket whose lower bound its updatedAt
\* reaches, in older otherwise (a missing or invalid date included); the
\* order of the input is kept inside each group.
GroupNames == <<"pinned", "today", "yesterday", "lastWeek", "lastMonth", "older">>
LowerBound(k, today) == CASE k = 2 -> today [] k = 3 -> today - 1 [] k = 4 -> today - 7 [] k = 5 -> today - 30
ExpectedGroup(conv, today) ==
  IF conv.isPinned THEN 1
  ELSE IF ~conv.updatedAt.valid THEN 6
  ELSE LET reached == {k \in 2..5 : conv.updatedAt.day >= LowerBound(k, today)}
       IN IF reached = {} THEN 6 ELSE CHOOSE k \in reached : \A j \in reached : k <= j
PlacesOf(i) ==
  {<<k, j>> \in (1..6) \X (1..Len(conversations)) :
     /\ j <= Len(last.groups[GroupNames[k]])
     /\ last.groups[GroupNames[k]][j] = Pushed(conversations[i], last.backend)}
C18_Witness ==
  /\ last.op = "group"
  /\ Len(conversations) = 2
  /\ conversations[1].isPinned /\ ~conversations[1].updatedAt.valid
  /\ ~conversations[2].isPinned /\ conversations[2].updatedAt = DateOn(-7)
  /\ last.today = 1
  /\ Len(last.groups.pinned) = 1 /\ Len(last.groups.lastMonth) = 1
C18_GroupsPartitionByDate ==
  last.op = "group" =>
    /\ \A i \in 1..Len(conversations) : Cardinality(PlacesOf(i)) = 1
    /\ \A k \in 1..6 :
         last.groups[GroupNames[k]] =
           LET kept == SelectSeq(conversations, LAMBDA c : ExpectedGroup(c, last.today) = k)
           IN [j \in 1..Len(kept) |-> Pushed(kept[j], last.backend)]
    /\ last.groups = groupConversationsByDate(conversations, last.today, last.backend)

\* C19: the pages 1..ceil(n/10) of PaginatedTable partition the rows of a
\* flat table: the rows of page 1, 2, ... one after the other are the input
\* rows, each once and in order; every page but the last has 10 rows and the
\* last has between 1 and 10.
RECURSIVE PagesUpTo(_)
PagesUpTo(p) == IF p = 0 THEN <<>> ELSE PagesUpTo(p - 1) \o currentRows(rows, p)
LastPageNumber == IF Len(rows) % 10 = 0 THEN Len(rows) \div 10 ELSE (Len(rows) \div 10) + 1
C19_Witness ==
  /\ last.op = "next"
  /\ Len(rows) = 25
  /\ currentPage = 3
  /\ last.shown = <<21, 22, 23, 24, 25>>
C19_PagesPartitionRows ==
  /\ totalPages(rows) = LastPageNumber
  /\ PagesUpTo(LastPageNumber) = rows
  /\ \A p \in 1..(LastPageNumber - 1) : Len(currentRows(rows, p)) = 10
  /\ LastPageNumber >= 1 => Len(currentRows(rows, LastPageNumber)) \in 1..10
  /\ currentPage \in 1..LastPageNumber =>
       last.shown = [j \in 1..Len(last.shown) |-> rows[(currentPage - 1) * 10 + j]]

\* C30: in PaginatedTable currentPage stays within 1..totalPages whenever the
\* table has at least one row, after any clicks and go-to-page entries and
\* after the rows were replaced by a later table frame.
C30_CurrentPageInRange ==
  Len(rows) >= 1 => currentPage \in 1..totalPages(rows)

\* C21: in the local storage adapter getConversations() and getMessages(id)
\* always return an array (the empty array when nothing is stored under the
\* key), so that addMessage, updateMessage, clearAllData and getStorageStats
\* never fail on a missing key.
NoCallFailed == last.op \notin {"add-threw", "update-threw", "clear-threw", "stats-threw"}
ReadsReturnArrays ==
  /\ getConversations(World).present
  /\ \A id \in ConvIds : getMessages(World, id).present
C21_ReadsNeverNull == [][ReadsReturnArrays' /\ NoCallFailed']_vars

\* C22: local-storage deleteConversation(id) of a listed id removes its
\* metadata and its stored messages, clears the persisted current id if it
\* was id, leaves every other conversation and its messages unchanged and
\* returns true; of an id not listed it returns false and changes nothing.
WasListed(id) == FindIndex(OrEmpty(localStorage.convs), id) # 0
DeleteEffect ==
  LET id == last'.id
  IN IF WasListed(id)
     THEN /\ last'.returned
          /\ localStorage'.convs = Stored(FilterOut(localStorage.convs.v, id))
          /\ localStorage'.msgs = [localStorage.msgs EXCEPT ![id] = JsNull]
          /\ localStorage'.cur = IF localStorage.cur = id THEN NoConv ELSE localStorage.cur
     ELSE /\ ~last'.returned
          /\ localStorage' = localStorage
C22_Witness ==
  /\ last.op = "delete" /\ last.returned
  /\ last.current = last.id
  /\ localStorage.cur = NoConv
  /\ ~Persisted(last.id).present
  /\ Len(StoredList) = 1
C22_DeleteRemovesOnlyItsConversation == [][last'.op = "delete" => DeleteEffect]_vars

\* C23: the updates applied to the bot placeholder do not depend on how the
\* response body is cut into chunks: for every body of well-formed lines and
\* every split, the sequence of updates applied is the same as when the
\* whole body arrives in one chunk.
C23_ChunkingDoesNotMatter ==
  bytesRead = Len(body) => applied = ChunkUpdates(body)

\* C27: no bot message ever has isThinking and isStreaming both true, in the
\* messages list or in storage.
ThinkingAndStreaming(m) == m.role = "bot" /\ m.isThinking /\ m.isStreaming
StoredMessageLists == {localStorage.msgs[c].v : c \in {d \in ConvIds : localStorage.msgs[d].present}}
C27_Witness ==
  /\ last.op = "chunk"
  /\ \E i \in 1..Len(messages) :
       /\ messages[i].role = "bot" /\ messages[i].id # WelcomeId
       /\ messages[i].isStreaming /\ ~messages[i].isThinking
       /\ messages[i].table # Null
C27_NeverThinkingAndStreaming ==
  /\ \A i \in 1..Len(messages) : ~ThinkingAndStreaming(messages[i])
  /\ \A list \in StoredMessageLists : \A i \in 1..Len(list) : ~ThinkingAndStreaming(list[i])

\* C25: whenever a send finishes and isLoading is false again, the bot
\* placeholder of that turn has isThinking false and isStreaming false, for
\* every response body.
C25_FinishedPlaceholderIsSettled ==
  (last.op \in {"end", "error"} /\ ~isLoading) =>
    \A i \in Placeholders(last.id) : ~messages[i].isThinking /\ ~messages[i].isStreaming

\* C29: the conversation_history sent with a message has at most 20 entries,
\* taken in order from the last 20 messages of the current conversation as
\* they are when the message is sent: every user message among them, every
\* bot message with a non-empty answer (as role 'assistant'), no bot message
\* with an empty answer and not the message being sent.
HistoryIndices(list) ==
  {i \in 1..Len(list) :
     /\ i > Len(list) - 20
     /\ list[i].role = "user" \/ (list[i].role = "bot" /\ Len(list[i].answer) > 0)}
PlaceInHistory(list, i) == Cardinality({j \in HistoryIndices(list) : j <= i})
Returnable(id) == localStorage.convs.present /\ FindIndex(localStorage.convs.v, id) # 0
SwitchEffect ==
  LET id == last'.to
  IN IF id = currentConversationId \/ ~Returnable(id)
     THEN /\ currentConversationId' = currentConversationId
          /\ messages' = messages
          /\ localStorage' = localStorage
     ELSE /\ currentConversationId' = id
          /\ localStorage' = [localStorage EXCEPT !.cur = id]
          /\ localStorage.msgs[id].present
          /\ messages' = localStorage.msgs[id].v
BackendSwitchEffect ==
  /\ last'.op = "switch" =>
       UNCHANGED <<currentConversationId, messages, localStorage>>
  /\ last'.op = "switched" =>
       \/ UNCHANGED <<currentConversationId, messages, localStorage>>
       \/ \E c \in calls \ calls' :
            /\ c.op = "switch" /\ c.to # c.cid
            /\ currentConversationId' = c.to
            /\ localStorage' = [localStorage EXCEPT !.cur = c.to]
            /\ messages' \in ServerMessages
C28_BackendSwitchSetsAllOrNothing == [][BackendSwitchEffect]_vars

\* C26: after any sequence of container operations (backend variant),
\* currentConversationId is null or the id of a conversation in the
\* in-memory conversations list.
C26_CurrentIsListed ==
  currentConversationId = NoConv \/ FindIndex(conversations, currentConversationId) # 0

\* C24: every updateMessage the chat app issues for the bot placeholder of a
\* turn, after it called addMessage for that placeholder without awaiting it,
\* finds the placeholder already in the in-memory messages list.
PlaceholderAddPending(messageId) ==
  \E c \in calls : c.op = "add" /\ c.message.id = messageId
PlaceholderListed(messageId) ==
  \E i \in 1..Len(messages) : messages[i].id = messageId
UpdateFindsPlaceholder ==
  (ops' = ops + 1 /\ last'.op = "update" /\ PlaceholderAddPending(last'.id))
    => PlaceholderListed(last'.id)
C24_UpdateFindsPlaceholder == [][UpdateFindsPlaceholder]_vars

====
